---- MODULE Spec2Model ----
(***************************************************************************)
(* Encoder executors of jinahub/encoders/text: DPRTextEncoder,             *)
(* LaserEncoder, TFIDFTextEncoder and TransformerSentenceEncoder.          *)
(*                                                                         *)
(* Every encoder has one request handler, encode(docs, parameters): it     *)
(* asks get_docs_batch_generator for the batches of the documents at the   *)
(* selected tree levels that carry text, runs the model's inference on     *)
(* each batch and assigns the returned embeddings to the documents of the  *)
(* batch with zip.  One encode call is modelled as a sequence of steps     *)
(* (call, next batch, inference, assignment, return or raise) so that the  *)
(* states between two batches are visible.                                 *)
(***************************************************************************)
EXTENDS Integers, Sequences, FiniteSets, TLC

(***************************************************************************)
(* Bounds of the model                                                     *)
(***************************************************************************)
MaxBatchSize == 2      \* batch_size overrides range over 1..MaxBatchSize
MaxCalls == 2          \* encode calls made on one encoder and document set

(***************************************************************************)
(* Program constants                                                       *)
(***************************************************************************)
DefaultBatchSize == 32     \* default_batch_size of the text encoders
EmbeddingDim == 1024       \* _EMBEDDING_DIM of the tests

Kinds == {"DPR", "Laser", "TFIDF", "Sentence"}

(***************************************************************************)
(* Documents.  A document is an identifier; its fields are the functions   *)
(* text, tags, embedding and chunks.  text "" is the empty text, NoTag is  *)
(* the None that get_attributes returns for a tag the document lacks.      *)
(***************************************************************************)
Docs == 1..6
NoTag == "None"
DocText == <<"t1", "t2", "t3", "t4", "t5", "t6">>
DocTitle == <<"T1", "T2", "T3", "T4", "T5", "T6">>
NoChunks == [d \in Docs |-> <<>>]

\* The document sets the caller passes: the tree of test_traversal_path
\* (1 root, 3 chunks, 2 chunks of the first chunk), a forest whose levels
\* span several parents, the empty array and None.
Shapes ==
  { [none |-> FALSE, roots |-> <<1>>,
     chunks |-> [NoChunks EXCEPT ![1] = <<2, 3, 4>>, ![2] = <<5, 6>>]],
    [none |-> FALSE, roots |-> <<1, 2>>,
     chunks |-> [NoChunks EXCEPT ![1] = <<3>>, ![2] = <<4, 5>>, ![4] = <<6>>]],
    [none |-> FALSE, roots |-> <<>>, chunks |-> NoChunks],
    [none |-> TRUE, roots |-> <<>>, chunks |-> NoChunks] }

\* The documents without text, without the title tag and with an embedding
\* from before the first call, in the document sets that have documents.
NoTextChoices == {{}, {1}, {4}, {2, 6}}
NoTitleChoices == {{}, {3}}
StaleChoices == {{}, {1, 4}}

RECURSIVE Concat(_)
Concat(ss) == IF ss = <<>> THEN <<>> ELSE Head(ss) \o Concat(Tail(ss))

Range(s) == {s[i] : i \in 1..Len(s)}

RECURSIVE SelectSeq2(_, _)
\* the subsequence of s of the elements in the set keep
SelectSeq2(s, keep) ==
  IF s = <<>> THEN <<>>
  ELSE (IF Head(s) \in keep THEN <<Head(s)>> ELSE <<>>) \o SelectSeq2(Tail(s), keep)

Min(a, b) == IF a < b THEN a ELSE b

(***************************************************************************)
(* Embeddings.  An embedding records its dimensionality and the inference  *)
(* input it was computed from, so that an embedding computed from another  *)
(* document's input is a different value.                                  *)
(***************************************************************************)
NoInput == [text |-> "", pair |-> NoTag, lang |-> NoTag]
NoEmbedding == [dim |-> 0, of |-> NoInput]
StaleEmbedding == [dim |-> EmbeddingDim, of |-> [text |-> "stale", pair |-> NoTag, lang |-> NoTag]]

\* the model's inference: one vector per input, in the order of the inputs
ModelInference(inputs) ==
  [i \in 1..Len(inputs) |-> [dim |-> EmbeddingDim, of |-> inputs[i]]]

(***************************************************************************)
(* Request parameters: a dict, modelled as a function whose domain is the  *)
(* set of keys that are present.                                           *)
(***************************************************************************)
Path_r == <<"r">>
Path_c == <<"c">>
Path_cc == <<"c", "c">>

TraversalChoices == { <<Path_c>>, <<Path_cc, Path_r>>, <<Path_r, Path_c>> }
\* the construction arguments (default_traversal_paths, default_batch_size):
\* the defaults of the signature, and ['c'] with a batch size of 2
DefaultChoices == { <<(<<Path_r>>), DefaultBatchSize>>, <<(<<Path_c>>), 2>> }
BatchSizeChoices == 1..MaxBatchSize
OtherKeys == {"language", "foo"}
KeyChoices ==
  { tb \cup ot : tb \in SUBSET {"traversal_paths", "batch_size"}, ot \in {{}, OtherKeys} }

MakeParameters(keys, tp, bs) ==
  [k \in keys |-> CASE k = "traversal_paths" -> tp
                    [] k = "batch_size" -> bs
                    [] k = "language" -> "de"
                    [] OTHER -> "bar"]

ParameterChoices ==
  { MakeParameters(keys, tp, bs) :
      keys \in KeyChoices,
      tp \in TraversalChoices, bs \in BatchSizeChoices }

\* dict.get(key, default)
Get(d, key, default) == IF key \in DOMAIN d THEN d[key] ELSE default

VARIABLES
  kind, encoder_type, title_tag_key,
  default_traversal_paths, default_batch_size, default_language,
  constructed, instance, ctor_error, loaded,
  docs_none, roots, chunks, text, tags, embedding,
  pc, calls, request, parameters,
  gen_flat, gen_pos, gen_size,
  batch, embeddings, error,
  pre_embedding,
                 pre_documents, pre_encoder, written, inferred

encoder == <<kind, encoder_type, title_tag_key, default_traversal_paths,
             default_batch_size, default_language, constructed,
             instance, ctor_error, loaded>>
documents == <<docs_none, roots, chunks, text, tags>>
\* the attributes of the encoder instance
fields == <<kind, encoder_type, title_tag_key, default_traversal_paths,
            default_batch_size, default_language, loaded>>
generator == <<gen_flat, gen_pos, gen_size>>
vars == <<kind, encoder_type, title_tag_key, default_traversal_paths,
          default_batch_size, default_language, constructed,
          instance, ctor_error, loaded,
          docs_none, roots, chunks, text, tags, embedding,
          pc, calls, request, parameters, gen_flat, gen_pos, gen_size,
          batch, embeddings, error, pre_embedding,
                 pre_documents, pre_encoder, written, inferred>>

(***************************************************************************)
(* get_docs_batch_generator (jina_commons.batching), modelled from its     *)
(* contract: traverse the selected levels, keep the documents that carry   *)
(* the needed attribute, cut the flat sequence into batches.               *)
(***************************************************************************)
RECURSIVE Traverse(_, _, _)
\* the documents reached from the sequence ds by the path, in document order
Traverse(ch, ds, path) ==
  IF path = <<>> THEN ds
  ELSE IF Head(path) = "r" THEN Traverse(ch, ds, Tail(path))
  ELSE Concat([i \in 1..Len(ds) |-> Traverse(ch, ch[ds[i]], Tail(path))])

\* traverse_flat: the selected levels, one selector after the other
TraverseFlat(ch, ds, paths) ==
  Concat([i \in 1..Len(paths) |-> Traverse(ch, ds, paths[i])])

\* needs_attr = 'text': documents with empty text are left out
FilterNeedsAttr(txt, ds) == SelectSeq2(ds, {d \in Docs : txt[d] # ""})

\* the flat candidate sequence of the generator; None or empty docs give none
GeneratorCandidates(none, ch, txt, ds, paths) ==
  IF none THEN <<>> ELSE FilterNeedsAttr(txt, TraverseFlat(ch, ds, paths))

\* the batch the generator yields at position pos (documents pos+1 .. pos+size)
GeneratorBatch(flat, pos, size) == SubSeq(flat, pos + 1, Min(pos + size, Len(flat)))

(***************************************************************************)
(* The encoders' code                                                      *)
(***************************************************************************)
\* `if docs:` of DPR, Laser and TFIDF; TransformerSentenceEncoder has no guard
DocsGuard(k, none, ds) == IF k = "Sentence" THEN TRUE ELSE (~none /\ Len(ds) > 0)

\* variants: the request's traversal paths are not looked at; only the
\* first selector is used
EffectiveTraversalPaths_default(params, default) == default
EffectiveTraversalPaths_first(params, default) ==
  <<Head(Get(params, "traversal_paths", default))>>

\* parameters.get('traversal_paths', self.default_traversal_paths)
EffectiveTraversalPaths(params, default) == Get(params, "traversal_paths", default)

\* variant: the request's batch size is not looked at
EffectiveBatchSize_default(params, default) == default

\* parameters.get('batch_size', self.default_batch_size)
EffectiveBatchSize(params, default) == Get(params, "batch_size", default)

\* parameters.get('language', self.default_language), LaserEncoder only
EffectiveLanguage(k, params, default) ==
  IF k = "Laser" THEN Get(params, "language", default) ELSE NoTag

\* self.encoder_type == 'context' and self.title_tag_key
NeedsTitle(k, etype, key) == k = "DPR" /\ etype = "context" /\ key # NoTag

\* variant: the None of the documents without the tag are not filtered out
TextPairs_unfiltered(tg, b) == [i \in 1..Len(b) |-> tg[b[i]]]

\* list(filter(lambda x: x is not None, batch_docs.get_attributes('tags__<key>')))
TextPairs(tg, b) == SelectSeq([i \in 1..Len(b) |-> tg[b[i]]], LAMBDA t : t # NoTag)

\* the inputs of one inference call: the texts of the batch in batch order,
\* with the titles as text pairs (DPR) or the language (Laser)
InferenceInputs(txt, tg, b, withTitle, lang) ==
  [i \in 1..Len(b) |-> [text |-> txt[b[i]],
                        pair |-> IF withTitle THEN TextPairs(tg, b)[i] ELSE NoTag,
                        lang |-> lang]]

\* variant: an embedding the document already holds is added to, not replaced
AssignPairs_accumulate(emb, pairs) ==
  [d \in Docs |->
     IF \E i \in 1..Len(pairs) : pairs[i][1] = d
     THEN LET e == pairs[CHOOSE i \in 1..Len(pairs) : pairs[i][1] = d][2]
          IN IF emb[d].dim = 0 THEN e ELSE [e EXCEPT !.of.text = "sum"]
     ELSE emb[d]]

\* variants: the last pair is left out; the embeddings are paired in
\* reverse order
ZipPairs_short(b, embs) == [i \in 1..(Min(Len(b), Len(embs)) - 1) |-> <<b[i], embs[i]>>]
ZipPairs_reversed(b, embs) ==
  [i \in 1..Min(Len(b), Len(embs)) |-> <<b[i], embs[Len(embs) + 1 - i]>>]

\* zip(batch, embeddings): the pairs (document, embedding), as long as the
\* shorter of the two
ZipPairs(b, embs) == [i \in 1..Min(Len(b), Len(embs)) |-> <<b[i], embs[i]>>]

RECURSIVE AssignPairs(_, _)
\* for doc, embedding in pairs: doc.embedding = embedding
AssignPairs(emb, pairs) ==
  IF pairs = <<>> THEN emb
  ELSE AssignPairs([emb EXCEPT ![Head(pairs)[1]] = Head(pairs)[2]], Tail(pairs))

\* variant: docs that fail the guard are rejected with an error
AfterGuard_raise(ok) == IF ok THEN "loop" ELSE "raised"

\* where encode continues after `if docs:`: into the loop over the batches,
\* or past the end of the function
AfterGuard(ok) == IF ok THEN "loop" ELSE "returned"

\* variant: the overrides are taken out of the caller's dict with pop
ParametersAfterGet_pop(params) ==
  [k \in DOMAIN params \ {"traversal_paths", "batch_size"} |-> params[k]]

\* the caller's dict after the lookups: dict.get leaves it as it is
ParametersAfterGet(params) == params

\* variant: the call stores the values it used as the new defaults
StoredDefaults_overwritten(params, dtp, dbs) ==
  <<Get(params, "traversal_paths", dtp), Get(params, "batch_size", dbs)>>

\* the defaults the encoder holds after a call: encode assigns neither
\* self.default_traversal_paths nor self.default_batch_size
StoredDefaults(params, dtp, dbs) == <<dtp, dbs>>

(***************************************************************************)
(* Initial state: an encoder after construction and the caller's documents *)
(***************************************************************************)
ShapeDocs(s) == UNION {Range(s.chunks[d]) : d \in Docs} \cup Range(s.roots)

\* the caller's documents; documents without the title tag are passed to
\* encoders that pair titles only
InitDocuments(titles) ==
  \E s \in Shapes :
       /\ docs_none = s.none
       /\ roots = s.roots
       /\ chunks = s.chunks
       /\ \E nt \in NoTextChoices :
            /\ (ShapeDocs(s) = {} => nt = {})
            /\ text = [d \in Docs |-> IF d \in ShapeDocs(s) \ nt THEN DocText[d] ELSE ""]
       /\ \E nl \in NoTitleChoices :
            /\ (nl # {} => ShapeDocs(s) # {} /\ titles)
            /\ tags = [d \in Docs |-> IF d \in ShapeDocs(s) \ nl THEN DocTitle[d] ELSE NoTag]
       /\ \E stale \in StaleChoices :
            /\ (ShapeDocs(s) = {} => stale = {})
            /\ embedding = [d \in Docs |-> IF d \in stale THEN StaleEmbedding ELSE NoEmbedding]

\* no call made yet
InitCalls ==
  /\ pc = "idle"
  /\ calls = 0
  /\ request = MakeParameters({}, <<>>, 0)
  /\ parameters = request
  /\ gen_flat = <<>>
  /\ gen_pos = 0
  /\ gen_size = 0
  /\ batch = <<>>
  /\ embeddings = <<>>
  /\ error = "none"
  /\ pre_embedding = embedding
  /\ pre_documents = documents
  /\ pre_encoder = fields
  /\ written = {}
  /\ inferred = <<>>

\* what a constructor loads: tokenizer and model (DPR), the pickled
\* vectorizer (TFIDF), the model (Laser, TransformerSentenceEncoder)
Artifacts(k) ==
  CASE k = "DPR" -> {"tokenizer", "model"}
    [] k = "TFIDF" -> {"tfidf_vectorizer"}
    [] OTHER -> {"model"}

Init ==
  /\ kind \in Kinds
  /\ encoder_type \in {"question", "context"}
  /\ title_tag_key \in {NoTag, "title"}
  /\ (kind # "DPR" => encoder_type = "question" /\ title_tag_key = NoTag)
  /\ \E dflt \in DefaultChoices :
       /\ default_traversal_paths = dflt[1]
       /\ default_batch_size = dflt[2]
  /\ default_language = "en"
  /\ constructed = [default_traversal_paths |-> default_traversal_paths,
                    default_batch_size |-> default_batch_size,
                    encoder_type |-> encoder_type,
                    title_tag_key |-> title_tag_key,
                    vectorizer_exists |-> TRUE]
  /\ instance = "usable"
  /\ ctor_error = "none"
  /\ loaded = Artifacts(kind)
  /\ InitDocuments(kind = "DPR" /\ title_tag_key # NoTag)
  /\ InitCalls

(***************************************************************************)
(* Construction.  The constructor arguments are in constructed; the steps  *)
(* are the assignments before the configuration check, the check, and the  *)
(* loading of the model.  A constructor that raises leaves no instance.    *)
(***************************************************************************)
EncoderTypeChoices == {"question", "context", "passage"}

InitConstruct ==
  /\ kind \in Kinds
  /\ \E et \in EncoderTypeChoices, tk \in {NoTag, "title"}, ve \in BOOLEAN,
        dflt \in DefaultChoices :
       /\ (kind # "DPR" => et = "question" /\ tk = NoTag)
       /\ (kind # "TFIDF" => ve)
       /\ constructed = [default_traversal_paths |-> dflt[1],
                         default_batch_size |-> dflt[2],
                         encoder_type |-> et,
                         title_tag_key |-> tk,
                         vectorizer_exists |-> ve]
  /\ encoder_type = "unset"
  /\ title_tag_key = NoTag
  /\ default_traversal_paths = <<>>
  /\ default_batch_size = 0
  /\ default_language = "unset"
  /\ instance = "none"
  /\ ctor_error = "none"
  /\ loaded = {}
  /\ InitDocuments(kind = "DPR" /\ constructed.encoder_type # "passage"
                   /\ constructed.title_tag_key # NoTag)
  /\ InitCalls

\* variant: no configuration is rejected
ConfigurationError_unchecked(k, args) == "none"

\* the configuration checks of the constructors:
\* DPR: encoder_type not in ['context', 'question'];
\* TFIDF: not os.path.exists(self.path_vectorizer)
ConfigurationError(k, args) ==
  IF k = "DPR" /\ args.encoder_type \notin {"context", "question"}
    THEN "ValueError"
  ELSE IF k = "TFIDF" /\ ~args.vectorizer_exists
    THEN "PretrainedModelFileDoesNotExist"
  ELSE "none"

call_state == <<pc, calls, request, parameters, gen_flat, gen_pos, gen_size, batch, embeddings,
                error, pre_embedding,
                 pre_documents, pre_encoder, written, inferred>>

\* __init__ up to the configuration check: DPR assigns title_tag_key; the
\* other encoders assign their defaults
ConstructBegin ==
  /\ instance = "none"
  /\ instance' = "checking"
  /\ title_tag_key' = constructed.title_tag_key
  /\ IF kind = "DPR"
     THEN UNCHANGED <<default_traversal_paths, default_batch_size>>
     ELSE /\ default_traversal_paths' = constructed.default_traversal_paths
          /\ default_batch_size' = constructed.default_batch_size
  /\ default_language' = "en"
  /\ UNCHANGED <<kind, encoder_type, constructed, ctor_error, loaded,
                 documents, embedding, call_state>>

\* the configuration check raises: the constructor is left with nothing loaded
ConstructRaise ==
  /\ instance = "checking"
  /\ ConfigurationError(kind, constructed) # "none"
  /\ ctor_error' = ConfigurationError(kind, constructed)
  /\ instance' = "failed"
  /\ UNCHANGED <<kind, encoder_type, title_tag_key, default_traversal_paths,
                 default_batch_size, default_language, constructed, loaded,
                 documents, embedding, call_state>>

\* the configuration check passes: the model is loaded, DPR assigns
\* encoder_type before and its defaults after, and the instance is returned
ConstructLoad ==
  /\ instance = "checking"
  /\ ConfigurationError(kind, constructed) = "none"
  /\ encoder_type' = constructed.encoder_type
  /\ loaded' = Artifacts(kind)
  /\ default_traversal_paths' = constructed.default_traversal_paths
  /\ default_batch_size' = constructed.default_batch_size
  /\ instance' = "usable"
  /\ UNCHANGED <<kind, title_tag_key, default_language, constructed, ctor_error,
                 documents, embedding, call_state>>

(***************************************************************************)
(* encode(docs, parameters)                                                *)
(***************************************************************************)
\* The call with parameters drawn from requests: the guard on docs and the
\* creation of the batch generator.
\* A caller whose request raised makes no further request.
CallWith(requests) ==
  /\ instance = "usable"
  /\ pc \in {"idle", "returned"}
  /\ calls < MaxCalls
  /\ calls' = calls + 1
  /\ \E p \in requests : request' = p
  /\ parameters' = ParametersAfterGet(request')
  /\ pre_embedding' = embedding
  /\ pre_documents' = documents
  /\ pre_encoder' = fields
  /\ written' = {}
  /\ inferred' = <<>>
  /\ batch' = <<>>
  /\ embeddings' = <<>>
  /\ error' = "none"
  /\ pc' = AfterGuard(DocsGuard(kind, docs_none, roots))
  /\ IF DocsGuard(kind, docs_none, roots)
     THEN /\ gen_flat' = GeneratorCandidates(docs_none, chunks, text, roots,
                           EffectiveTraversalPaths(request', default_traversal_paths))
          /\ gen_size' = EffectiveBatchSize(request', default_batch_size)
     ELSE /\ gen_flat' = <<>>
          /\ gen_size' = 0
  /\ gen_pos' = 0
  /\ default_traversal_paths' =
       StoredDefaults(request', default_traversal_paths, default_batch_size)[1]
  /\ default_batch_size' =
       StoredDefaults(request', default_traversal_paths, default_batch_size)[2]
  /\ UNCHANGED <<kind, encoder_type, title_tag_key, default_language, constructed,
                 instance, ctor_error, loaded, documents, embedding>>

Call == CallWith(ParameterChoices)

\* for batch in generator: the generator yields the next batch
NextBatch ==
  /\ pc = "loop"
  /\ gen_pos < Len(gen_flat)
  /\ batch' = GeneratorBatch(gen_flat, gen_pos, gen_size)
  /\ gen_pos' = gen_pos + Len(batch')
  /\ embeddings' = <<>>
  /\ pc' = "batch"
  /\ UNCHANGED <<encoder, documents, embedding, calls, request, parameters, gen_flat, gen_size,
                 error, pre_embedding,
                 pre_documents, pre_encoder, written, inferred>>

\* the generator is exhausted: the loop ends and encode returns; the batch,
\* the embeddings and the generator are locals of the call and go with it
Return ==
  /\ pc = "loop"
  /\ gen_pos >= Len(gen_flat)
  /\ pc' = "returned"
  /\ batch' = <<>>
  /\ embeddings' = <<>>
  /\ gen_flat' = <<>>
  /\ gen_pos' = 0
  /\ gen_size' = 0
  /\ UNCHANGED <<encoder, documents, embedding, calls, request, parameters,
                 error, pre_embedding,
                 pre_documents, pre_encoder, written, inferred>>

\* DPR, context encoder with title_tag_key: a document of the batch lacks the tag
TitleError ==
  /\ pc = "batch"
  /\ NeedsTitle(kind, encoder_type, title_tag_key)
  /\ Len(TextPairs(tags, batch)) # Len(batch)
  /\ pc' = "raised"
  /\ error' = "ValueError"
  /\ UNCHANGED <<encoder, documents, embedding, calls, request, parameters, generator,
                 batch, embeddings, pre_embedding,
                 pre_documents, pre_encoder, written, inferred>>

TitleChecked ==
  NeedsTitle(kind, encoder_type, title_tag_key) => Len(TextPairs(tags, batch)) = Len(batch)

CurrentInputs ==
  InferenceInputs(text, tags, batch, NeedsTitle(kind, encoder_type, title_tag_key),
                  EffectiveLanguage(kind, parameters, default_language))

\* the record of one inference call: the batch, the inputs passed and the
\* number of embeddings returned (Raised when the call raised)
Raised == -1
InferenceCall(returned) == [docs |-> batch, inputs |-> CurrentInputs, returned |-> returned]

\* the inference call on the batch returns one embedding per input
Infer ==
  /\ pc = "batch"
  /\ TitleChecked
  /\ embeddings' = ModelInference(CurrentInputs)
  /\ inferred' = Append(inferred, InferenceCall(Len(embeddings')))
  /\ pc' = "assign"
  /\ UNCHANGED <<encoder, documents, embedding, calls, request, parameters, generator,
                 batch, error, pre_embedding,
                 pre_documents, pre_encoder, written>>

\* variant: the failure is caught and the loop goes on with the next batch
InferFail_swallowed ==
  /\ pc = "batch"
  /\ TitleChecked
  /\ inferred' = Append(inferred, InferenceCall(Raised))
  /\ pc' = "loop"
  /\ error' = "InferenceError"
  /\ UNCHANGED <<encoder, documents, embedding, calls, request, parameters, generator,
                 batch, embeddings, pre_embedding,
                 pre_documents, pre_encoder, written>>

\* the inference call on the batch raises; encode does not catch it
InferFail ==
  /\ pc = "batch"
  /\ TitleChecked
  /\ inferred' = Append(inferred, InferenceCall(Raised))
  /\ pc' = "raised"
  /\ error' = "InferenceError"
  /\ UNCHANGED <<encoder, documents, embedding, calls, request, parameters, generator,
                 batch, embeddings, pre_embedding,
                 pre_documents, pre_encoder, written>>

\* variant: the zip loop stands after the loop over the batches, so that
\* only the embeddings of the last batch are assigned
Assign_dedented ==
  /\ pc = "assign"
  /\ IF gen_pos >= Len(gen_flat)
     THEN /\ embedding' = AssignPairs(embedding, ZipPairs(batch, embeddings))
          /\ written' = written \cup {pr[1] : pr \in Range(ZipPairs(batch, embeddings))}
     ELSE UNCHANGED <<embedding, written>>
  /\ pc' = "loop"
  /\ UNCHANGED <<encoder, documents, calls, request, parameters, generator,
                 batch, embeddings, error, pre_embedding,
                 pre_documents, pre_encoder, inferred>>

\* the zip loop assigns the embeddings to the documents of the batch
Assign ==
  /\ pc = "assign"
  /\ embedding' = AssignPairs(embedding, ZipPairs(batch, embeddings))
  /\ written' = written \cup {pr[1] : pr \in Range(ZipPairs(batch, embeddings))}
  /\ pc' = "loop"
  /\ UNCHANGED <<encoder, documents, calls, request, parameters, generator,
                 batch, embeddings, error, pre_embedding,
                 pre_documents, pre_encoder, inferred>>

Next == Call \/ NextBatch \/ Return \/ TitleError \/ Infer \/ InferFail \/ Assign

Spec == Init /\ [][Next]_vars

(***************************************************************************)
(* An inference that breaks its contract: it returns one embedding too few *)
(* or one too many, at most once in a call.                                *)
(***************************************************************************)
InferMiscount ==
  /\ pc = "batch"
  /\ TitleChecked
  /\ \A k \in 1..Len(inferred) : inferred[k].returned = Len(inferred[k].docs)
  /\ \E short \in BOOLEAN :
       embeddings' = IF short
                     THEN SubSeq(ModelInference(CurrentInputs), 1, Len(batch) - 1)
                     ELSE Append(ModelInference(CurrentInputs), StaleEmbedding)
  /\ inferred' = Append(inferred, InferenceCall(Len(embeddings')))
  /\ pc' = "assign"
  /\ UNCHANGED <<encoder, documents, embedding, calls, request, parameters, generator,
                 batch, error, pre_embedding,
                 pre_documents, pre_encoder, written>>

NextMiscount == Next \/ InferMiscount

SpecMiscount == Init /\ [][NextMiscount]_vars

(***************************************************************************)
(* Construction followed by the calls                                      *)
(***************************************************************************)
NextConstruct == ConstructBegin \/ ConstructRaise \/ ConstructLoad \/ Next

SpecConstruct == InitConstruct /\ [][NextConstruct]_vars

(***************************************************************************)
(* The same request made twice in a row                                    *)
(***************************************************************************)
CallFirst == calls = 0 /\ CallWith(ParameterChoices)

CallAgain == calls >= 1 /\ CallWith({request})

NextTwice ==
  CallFirst \/ CallAgain \/ NextBatch \/ Return \/ TitleError \/ Infer \/ InferFail \/ Assign

SpecTwice == Init /\ [][NextTwice]_vars

(***************************************************************************)
(* What the claims speak of, stated from the documents and the request     *)
(* alone: the tree levels, the selected documents, the candidates.         *)
(***************************************************************************)
InCall == calls > 0

\* the nesting depth a selector names: the number of its 'c' tokens
Depth(path) == Cardinality({i \in 1..Len(path) : path[i] = "c"})

RECURSIVE LevelSeq(_)
\* the documents at nesting depth n, in document order
LevelSeq(n) ==
  IF n = 0 THEN roots
  ELSE LET up == LevelSeq(n - 1)
       IN Concat([i \in 1..Len(up) |-> chunks[up[i]]])

\* the traversal paths and batch size of the call: the request's when the
\* key is present, the construction arguments otherwise
RequestedPaths ==
  IF "traversal_paths" \in DOMAIN parameters
  THEN parameters["traversal_paths"] ELSE constructed.default_traversal_paths
RequestedBatchSize ==
  IF "batch_size" \in DOMAIN parameters
  THEN parameters["batch_size"] ELSE constructed.default_batch_size

\* the documents at the selected levels, selector after selector
SelectedSeq ==
  IF docs_none THEN <<>>
  ELSE Concat([i \in 1..Len(RequestedPaths) |-> LevelSeq(Depth(RequestedPaths[i]))])
\* ... of which those that carry text
CandidateSeq == SelectSeq(SelectedSeq, LAMBDA d : text[d] # "")
Selected == Range(SelectedSeq)
Eligible == Range(CandidateSeq)

\* the documents passed to inference so far, in the order they were passed
InferredDocs == Concat([k \in 1..Len(inferred) |-> inferred[k].docs])

IsPrefix(s, t) == Len(s) <= Len(t) /\ s = SubSeq(t, 1, Len(s))
Ceil(a, b) == (a + b - 1) \div b

\* C1: in every state of every encode call, the documents an embedding was
\* written to are selected by the effective traversal paths and carry text,
\* and every other document has the embedding it had before the call.
C1_OnlyEligibleWritten ==
  InCall =>
    /\ written \subseteq Eligible
    /\ \A d \in Docs \ Eligible : embedding[d] = pre_embedding[d]

\* a call returned that wrote embeddings while a selected document without
\* text and a document at an unselected level kept their earlier embeddings
C1_Witness ==
  /\ pc = "returned"
  /\ written # {}
  /\ \E d \in Selected : text[d] = "" /\ embedding[d] = StaleEmbedding
  /\ \E d \in Docs \ Selected : text[d] # "" /\ embedding[d] = StaleEmbedding

\* C2: when an encode call has returned, every document that is selected and
\* carries text was assigned an embedding and holds one of the model's
\* dimensionality, whatever the batch size.
C2_AllEligibleEmbedded ==
  pc = "returned" =>
    \A d \in Eligible : d \in written /\ embedding[d].dim = EmbeddingDim

\* a call returned with five candidates and a batch size of 2
C2_Witness ==
  /\ pc = "returned"
  /\ Len(CandidateSeq) = 5
  /\ RequestedBatchSize = 2
  /\ written = Eligible

\* C3: the batches handed to inference hold at most B documents each, all
\* but the last hold exactly B, none is empty, in order they make up a prefix
\* of the candidate sequence, and when the call has returned they are
\* ceil(L/B) batches that make up the whole candidate sequence.
C3_BatchConstruction ==
  InCall =>
    /\ \A k \in 1..Len(inferred) :
         /\ Len(inferred[k].docs) >= 1
         /\ Len(inferred[k].docs) <= RequestedBatchSize
         /\ (k < Len(inferred) => Len(inferred[k].docs) = RequestedBatchSize)
    /\ IsPrefix(InferredDocs, CandidateSeq)
    /\ (pc = "returned" =>
          /\ InferredDocs = CandidateSeq
          /\ Len(inferred) = Ceil(Len(CandidateSeq), RequestedBatchSize))

\* five candidates went to inference in batches of 2, 2 and 1
C3_Witness ==
  /\ pc = "returned"
  /\ Len(CandidateSeq) = 5
  /\ RequestedBatchSize = 2
  /\ Len(inferred) = 3
  /\ Len(inferred[3].docs) = 1

\* C4: with several selectors the documents reach inference level after
\* level in the order of the selectors, document order kept within a level;
\* when the call has returned exactly the documents with text at the
\* selected levels were assigned embeddings, the others none.
C4_SelectorUnion ==
  InCall =>
    /\ IsPrefix(InferredDocs,
                SelectSeq(SelectedSeq, LAMBDA d : text[d] # ""))
    /\ written \subseteq Selected
    /\ (pc = "returned" => written = {d \in Selected : text[d] # ""})
    /\ \A d \in Docs \ Selected : embedding[d] = pre_embedding[d]

\* ['cc', 'r'] on 1 root, 3 chunks, 2 chunks of chunks, all with text:
\* the two grandchildren, then the root, and none of the three chunks
C4_Witness ==
  /\ pc = "returned"
  /\ calls = 1
  /\ roots = <<1>>
  /\ RequestedPaths = <<Path_cc, Path_r>>
  /\ \A d \in Docs : text[d] # ""
  /\ InferredDocs = <<5, 6, 1>>
  /\ written = {1, 5, 6}
  /\ \A d \in {2, 3, 4} : embedding[d].dim # EmbeddingDim

\* C5: the inputs of every inference call are the texts of the batch's
\* documents in batch order, and every document written holds the embedding
\* that an inference call on a batch returned at the document's own position.
C5_PositionalPairing ==
  /\ \A k \in 1..Len(inferred) :
       /\ Len(inferred[k].inputs) = Len(inferred[k].docs)
       /\ \A i \in 1..Len(inferred[k].docs) :
            inferred[k].inputs[i].text = text[inferred[k].docs[i]]
  /\ \A d \in written :
       /\ embedding[d].of.text = text[d]
       /\ \E k \in 1..Len(inferred) : \E i \in 1..Len(inferred[k].docs) :
            /\ inferred[k].docs[i] = d
            /\ embedding[d] = ModelInference(inferred[k].inputs)[i]

\* a batch of two documents was assigned
C5_Witness ==
  /\ pc = "loop"
  /\ Len(batch) = 2
  /\ Range(batch) \subseteq written

\* C6: if an inference call returns a number of embeddings other than the
\* number of documents of its batch, the call fails: it neither goes on to
\* the next batch nor returns.
C6_MiscountIsFatal ==
  (\E k \in 1..Len(inferred) :
      inferred[k].returned \notin {Raised, Len(inferred[k].docs)})
    => pc \in {"assign", "raised"}

\* C7: a call with docs None or an empty document array does not raise,
\* calls inference on nothing, touches no document and returns.
C7_EmptyInput ==
  (InCall /\ (docs_none \/ roots = <<>>)) =>
    /\ pc \in {"loop", "returned"}
    /\ (pc = "loop" => gen_pos >= Len(gen_flat))
    /\ error = "none"
    /\ inferred = <<>>
    /\ written = {}
    /\ embedding = pre_embedding

\* a TransformerSentenceEncoder call with docs None has returned
C7_Witness ==
  /\ pc = "returned"
  /\ InCall
  /\ docs_none
  /\ kind = "Sentence"

\* C8: the generator of a call works on the traversal paths and the batch
\* size of the request when the keys are present and on the construction
\* arguments otherwise, whatever other keys the request has; a call that has
\* returned wrote exactly the candidates so determined; and the encoder's
\* stored defaults always equal the construction arguments.
C8_Overrides ==
  /\ default_traversal_paths = constructed.default_traversal_paths
  /\ default_batch_size = constructed.default_batch_size
  /\ (pc \in {"loop", "batch", "assign"} =>
        /\ gen_flat = CandidateSeq
        /\ gen_size = RequestedBatchSize)
  /\ (pc = "returned" => written = Eligible)

\* a second call without overrides has returned after a first call that
\* overrode both the traversal paths and the batch size
C8_Witness ==
  /\ pc = "returned"
  /\ calls = 2
  /\ DOMAIN parameters = OtherKeys
  /\ written # {}
  /\ \E d \in Docs \ Eligible : embedding[d].dim = EmbeddingDim /\ text[d] # ""

\* the batch the candidates make at position j for the requested batch size
RequestedBatch(j) ==
  SubSeq(CandidateSeq, (j - 1) * RequestedBatchSize + 1,
         Min(j * RequestedBatchSize, Len(CandidateSeq)))

\* C9: a failure of inference ends the call with that failure; when inference
\* failed on batch k, the documents of batches 1..k-1 hold the embeddings
\* inference returned for them, no document of batch k or of a later batch
\* was written, and inference was called on batches 1..k and on no other.
C9_NoRollback ==
  /\ (error = "InferenceError" => pc = "raised")
  /\ (pc = "raised" /\ error = "InferenceError" =>
        LET k == Len(inferred) IN
        /\ k >= 1
        /\ inferred[k].returned = Raised
        /\ \A j \in 1..k : inferred[j].docs = RequestedBatch(j)
        /\ \A j \in 1..(k - 1) :
             /\ inferred[j].returned = Len(inferred[j].docs)
             /\ \A i \in 1..Len(RequestedBatch(j)) :
                  /\ RequestedBatch(j)[i] \in written
                  /\ embedding[RequestedBatch(j)[i]] = ModelInference(inferred[j].inputs)[i]
        /\ \A q \in ((k - 1) * RequestedBatchSize + 1)..Len(CandidateSeq) :
             /\ CandidateSeq[q] \notin written
             /\ embedding[CandidateSeq[q]] = pre_embedding[CandidateSeq[q]])

\* inference failed on the second of three batches
C9_Witness ==
  /\ pc = "raised"
  /\ error = "InferenceError"
  /\ Len(inferred) = 2
  /\ Len(CandidateSeq) > 2 * RequestedBatchSize
  /\ written = Range(RequestedBatch(1))

\* the configuration in which titles are paired with the texts
TitlesRequired == kind = "DPR" /\ encoder_type = "context" /\ title_tag_key = "title"

\* C10: for a DPR context encoder with title_tag_key, inference is never
\* called on a batch with a document that lacks the title tag; the call
\* raises ValueError on such a batch, with no document of the batch written;
\* and a call returns only when every candidate carries the tag.
C10_TitleMismatch ==
  TitlesRequired =>
    /\ \A k \in 1..Len(inferred) : \A i \in 1..Len(inferred[k].docs) :
         tags[inferred[k].docs[i]] # NoTag
    /\ (pc \in {"assign", "loop", "returned"} => \A d \in Range(batch) : tags[d] # NoTag)
    /\ (error = "ValueError" =>
          /\ pc = "raised"
          /\ \E d \in Range(batch) : tags[d] = NoTag
          /\ \A d \in Range(batch) : d \notin written /\ embedding[d] = pre_embedding[d]
          /\ batch = RequestedBatch(Len(inferred) + 1))
    /\ (pc = "returned" => \A d \in Eligible : tags[d] # NoTag)

\* ValueError on the second batch, which holds a document with the tag and
\* one without
C10_Witness ==
  /\ TitlesRequired
  /\ pc = "raised"
  /\ error = "ValueError"
  /\ Len(inferred) = 1
  /\ Len(batch) = 2
  /\ \E d \in Range(batch) : tags[d] # NoTag

\* the constructor arguments are a configuration the encoder accepts
ValidConfiguration ==
  /\ (kind = "DPR" => constructed.encoder_type \in {"context", "question"})
  /\ (kind = "TFIDF" => constructed.vectorizer_exists)

\* C11: a DPR constructor given an encoder_type other than 'context' and
\* 'question' raises ValueError with neither tokenizer nor model loaded, a
\* TFIDF constructor whose vectorizer path does not exist raises
\* PretrainedModelFileDoesNotExist; such a constructor never yields a usable
\* instance, and no encode call is ever made on one.
C11_FailFast ==
  /\ (~ValidConfiguration => instance # "usable" /\ loaded = {} /\ ~InCall)
  /\ (~ValidConfiguration /\ instance = "failed" =>
        ctor_error = IF kind = "DPR" THEN "ValueError"
                     ELSE "PretrainedModelFileDoesNotExist")
  /\ (instance = "failed" => ~ValidConfiguration /\ ctor_error # "none")
  /\ (instance = "usable" => loaded = Artifacts(kind) /\ ctor_error = "none")
  /\ (InCall => instance = "usable")

\* a DPR constructor given encoder_type 'passage' has raised ValueError
C11_Witness ==
  /\ kind = "DPR"
  /\ constructed.encoder_type = "passage"
  /\ instance = "failed"
  /\ ctor_error = "ValueError"
  /\ loaded = {}

\* every state a constructor returns an instance in is an initial state of Spec
ConstructedIsInit == (instance = "usable" /\ calls = 0) => Init

\* C12: when a call is repeated with the same parameters on the same
\* documents, every document has at every point of the repeated call, and
\* when it has returned, the embedding it had after the call before; the
\* repeated call writes the same documents again.
C12_Idempotent ==
  calls >= 2 =>
    /\ embedding = pre_embedding
    /\ (pc = "returned" => written = Eligible)

\* a repeated call in batches of 1 has returned after writing five documents
C12_Witness ==
  /\ calls = 2
  /\ pc = "returned"
  /\ RequestedBatchSize = 1
  /\ Cardinality(written) = 5

\* the documents of the inference calls 1..n hold the embeddings returned
AssignedUpTo(n) ==
  \A j \in 1..n : \A i \in 1..Len(inferred[j].docs) :
    /\ inferred[j].docs[i] \in written
    /\ embedding[inferred[j].docs[i]] = ModelInference(inferred[j].inputs)[i]

\* C13: within a call the j-th inference call is on the j-th batch of the
\* candidate sequence, so each batch is passed once and in order; when
\* inference is called on a batch, and whenever the generator is asked for
\* the next one, every batch before holds its embeddings and the batch at
\* hand is still unwritten; and the call has returned only with all
\* ceil(L/B) batches inferred and assigned.
C13_Sequential ==
  InCall =>
    /\ \A j \in 1..Len(inferred) : inferred[j].docs = RequestedBatch(j)
    /\ AssignedUpTo(Len(inferred) - 1)
    /\ (pc \in {"loop", "batch", "returned"} => AssignedUpTo(Len(inferred)))
    /\ (pc = "batch" =>
          /\ batch = RequestedBatch(Len(inferred) + 1)
          /\ Range(batch) \cap written = {})
    /\ (pc = "assign" => Range(batch) \cap written = {})
    /\ (pc = "returned" =>
          /\ Len(inferred) = Ceil(Len(CandidateSeq), RequestedBatchSize)
          /\ written = Eligible)

\* the third batch is about to go to inference, the first two are assigned
C13_Witness ==
  /\ pc = "batch"
  /\ Len(inferred) = 2
  /\ batch = RequestedBatch(3)
  /\ written = Range(RequestedBatch(1)) \cup Range(RequestedBatch(2))
  /\ written # {}

\* C14: in every state of an encode call every document's text, tags and
\* chunk list, the document array, the caller's parameters and the fields
\* of the encoder are as they were when the call was made; a document whose
\* embedding differs from the one it had then is a selected document with
\* text; and when the call has returned, nothing of the call (generator,
\* batch, embeddings) refers to a document any more.
C14_Frame ==
  InCall =>
    /\ documents = pre_documents
    /\ fields = pre_encoder
    /\ parameters = request
    /\ \A d \in Docs : embedding[d] # pre_embedding[d] => d \in Eligible
    /\ (pc = "returned" => gen_flat = <<>> /\ batch = <<>> /\ embeddings = <<>>)

\* a call with overrides and other keys has returned after changing embeddings
C14_Witness ==
  /\ pc = "returned"
  /\ DOMAIN request = {"traversal_paths", "batch_size", "language", "foo"}
  /\ parameters = request
  /\ \E d \in written : embedding[d] # pre_embedding[d]
  /\ default_batch_size = constructed.default_batch_size

====
